---- MODULE Spec2Model ----
(***************************************************************************)
(* A model of flow_log_parser.py: the two CSV loaders, the flow-log line   *)
(* parser, the counting loop, the report writer and main's pipeline.       *)
(*                                                                         *)
(* Text is modelled at the level of characters: a string is a sequence of *)
(* one-character strings, a file is a sequence of lines.  Python's        *)
(* str.strip, str.split, str.lower, int(), str() and sorted() are         *)
(* operators that compute what the built-ins compute on the alphabet      *)
(* below.  csv quoting is not modelled: a CSV line is split on commas.    *)
(***************************************************************************)
EXTENDS Integers, Sequences, FiniteSets

VARIABLES
    argc,                  \* len(sys.argv)
    lookup_file,           \* the lines of <lookup_table_file>
    protocol_file,         \* the lines of <protocol_numbers_file>
    flow_log_file,         \* the lines of <flow_log_file>, each with its "\n"
    output_file,           \* the lines of <output_file> on disk
    pc,                    \* the stage main is in, or "exited"
    exit_status,           \* Running, 0 or 1
    error,                 \* the exception that ended the run, or "none"
    stages,                \* the stages main has started, in order
    lookup_table,          \* protocol -> (port -> tag)
    protocol_map,          \* protocol number -> protocol name
    row_idx,               \* the next row the current csv.reader yields, 0
                           \* before the file is opened; in write_output,
                           \* how many lines of the report are written
    line_idx,              \* how many flow-log lines the loop has consumed
    result,                \* what parse_flow_log_line returned last
    tag,                   \* the tag looked up last
    tag_counts,            \* dict in insertion order: <<[key, count], ...>>
    port_protocol_counts,  \* dict in insertion order: <<[key, count], ...>>
    out_open               \* whether write_output has opened the output file

vars == <<argc, lookup_file, protocol_file, flow_log_file, output_file, pc,
          exit_status, error, stages, lookup_table, protocol_map, row_idx,
          line_idx, result, tag, tag_counts, port_protocol_counts, out_open>>

----------------------------------------------------------------------------
(* Characters and Python's string built-ins *)

Digits == <<"0", "1", "2", "3", "4", "5", "6", "7", "8", "9">>

UpperCase == <<"A", "B", "C", "D", "E", "F", "G", "H", "I", "J", "K", "L", "M",
               "N", "O", "P", "Q", "R", "S", "T", "U", "V", "W", "X", "Y", "Z">>

LowerCase == <<"a", "b", "c", "d", "e", "f", "g", "h", "i", "j", "k", "l", "m",
               "n", "o", "p", "q", "r", "s", "t", "u", "v", "w", "x", "y", "z">>

\* The characters of the model in code-point order.
Ascii == <<"\t", "\n", "\r", " ", "#", "+", ",", "-", "/">> \o Digits
         \o <<":">> \o UpperCase \o <<"_">> \o LowerCase

Whitespace == {"\t", "\n", "\r", " "}

MinOf(S) == CHOOSE x \in S : \A y \in S : x <= y

MaxOf(S) == CHOOSE x \in S : \A y \in S : y <= x

CodePoint(c) == CHOOSE i \in 1..Len(Ascii) : Ascii[i] = c

IsDigit(c) == \E i \in 1..Len(Digits) : Digits[i] = c

DigitVal(c) == (CHOOSE i \in 1..Len(Digits) : Digits[i] = c) - 1

LowerChar(c) ==
    IF \E i \in 1..Len(UpperCase) : UpperCase[i] = c
    THEN LowerCase[CHOOSE i \in 1..Len(UpperCase) : UpperCase[i] = c]
    ELSE c

\* str.lower()
Lower(s) == [i \in 1..Len(s) |-> LowerChar(s[i])]

\* str.strip()
Strip(s) ==
    LET keep == {i \in 1..Len(s) : s[i] \notin Whitespace}
    IN  IF keep = {} THEN <<>> ELSE SubSeq(s, MinOf(keep), MaxOf(keep))

\* str.split(): the maximal runs of non-whitespace characters
RECURSIVE Split(_)
Split(s) ==
    LET t == Strip(s)
        ws == {i \in 1..Len(t) : t[i] \in Whitespace}
    IN  IF t = <<>> THEN <<>>
        ELSE IF ws = {} THEN <<t>>
        ELSE <<SubSeq(t, 1, MinOf(ws) - 1)>>
             \o Split(SubSeq(t, MinOf(ws) + 1, Len(t)))

\* One line of csv.reader output: the fields between commas, [] for a blank line
RECURSIVE SplitOnComma(_)
SplitOnComma(s) ==
    LET at == {i \in 1..Len(s) : s[i] = ","}
    IN  IF at = {} THEN <<s>>
        ELSE <<SubSeq(s, 1, MinOf(at) - 1)>>
             \o SplitOnComma(SubSeq(s, MinOf(at) + 1, Len(s)))

CsvRow(line) == IF line = <<>> THEN <<>> ELSE SplitOnComma(line)

\* int(s): surrounding whitespace, one optional sign, digits that single
\* underscores may separate
IntBody(s) ==
    LET t == Strip(s)
    IN  IF t # <<>> /\ t[1] \in {"+", "-"} THEN Tail(t) ELSE t

ParsesAsInt(s) ==
    LET b == IntBody(s)
    IN  /\ b # <<>>
        /\ IsDigit(b[1])
        /\ IsDigit(b[Len(b)])
        /\ \A i \in 1..Len(b) : IsDigit(b[i]) \/ b[i] = "_"
        /\ \A i \in 1..(Len(b) - 1) : ~(b[i] = "_" /\ b[i + 1] = "_")

RECURSIVE DigitsValue(_)
DigitsValue(b) ==
    IF b = <<>> THEN 0
    ELSE LET init == SubSeq(b, 1, Len(b) - 1)
             last == b[Len(b)]
         IN  IF last = "_" THEN DigitsValue(init)
             ELSE 10 * DigitsValue(init) + DigitVal(last)

ToInt(s) ==
    IF Strip(s)[1] = "-" THEN 0 - DigitsValue(IntBody(s))
    ELSE DigitsValue(IntBody(s))

\* str(n)
RECURSIVE NatToStr(_)
NatToStr(n) ==
    IF n < 10 THEN <<Digits[n + 1]>>
    ELSE NatToStr(n \div 10) \o <<Digits[(n % 10) + 1]>>

IntToStr(n) == IF n < 0 THEN <<"-">> \o NatToStr(0 - n) ELSE NatToStr(n)

\* a < b on strings, by code point
StrLess(a, b) ==
    LET n == IF Len(a) < Len(b) THEN Len(a) ELSE Len(b)
        diff == {i \in 1..n : a[i] # b[i]}
    IN  IF diff = {} THEN Len(a) < Len(b)
        ELSE CodePoint(a[MinOf(diff)]) < CodePoint(b[MinOf(diff)])

----------------------------------------------------------------------------
(* Program constants *)

ArgCount == 5

MinFields == 14

DstPortIndex == 6

ProtocolIndex == 7

LookupRowFields == 3

ProtocolRowFields == 2

Running == -1

None == <<>>

Untagged == <<"U", "n", "t", "a", "g", "g", "e", "d">>

HeaderKeyword == <<"d", "s", "t", "p", "o", "r", "t">>

----------------------------------------------------------------------------
(* Dictionaries *)

\* d.setdefault(k, v): the first value given for a key stays
PutIfAbsent(d, k, v) ==
    [x \in (DOMAIN d) \cup {k} |-> IF x \in DOMAIN d THEN d[x] ELSE v]

\* d[k] = v on a dict
Put(d, k, v) == [x \in (DOMAIN d) \cup {k} |-> IF x = k THEN v ELSE d[x]]

\* lookup[protocol][port] = tag on a defaultdict(dict)
LookupPut(t, protocol, port, tg) ==
    Put(t, protocol,
        Put(IF protocol \in DOMAIN t THEN t[protocol] ELSE <<>>, port, tg))

\* counts[k] += 1 on a defaultdict(int); a new key goes last
Incr(d, k) ==
    IF \E i \in 1..Len(d) : d[i].key = k
    THEN [i \in 1..Len(d) |->
            IF d[i].key = k THEN [key |-> k, count |-> d[i].count + 1]
            ELSE d[i]]
    ELSE Append(d, [key |-> k, count |-> 1])

----------------------------------------------------------------------------
(* load_lookup_table *)

\* next(reader) and the header test: where the row loop starts, or the
\* exception raised
LookupHeader(file) ==
    IF file = <<>> THEN [raised |-> "StopIteration", start |-> 0]
    ELSE IF CsvRow(file[1]) = <<>> THEN [raised |-> "IndexError", start |-> 0]
    ELSE IF Lower(CsvRow(file[1])[1]) # HeaderKeyword
         THEN [raised |-> "none", start |-> 1]
         ELSE [raised |-> "none", start |-> 2]

\* the unpacking of a row with at least three fields
UnpackRaises(row) == Len(row) # LookupRowFields

\* the body of the row loop
LookupRowStep(table, line) ==
    LET row == CsvRow(line)
    IN  IF Len(row) < LookupRowFields THEN [raised |-> "none", table |-> table]
        ELSE IF UnpackRaises(row) THEN [raised |-> "ValueError", table |-> table]
        ELSE IF ~ParsesAsInt(Strip(row[1])) THEN [raised |-> "none", table |-> table]
        ELSE [raised |-> "none",
              table  |-> LookupPut(table, Lower(Strip(row[2])),
                                   ToInt(Strip(row[1])), Strip(row[3]))]

RECURSIVE LookupRows(_, _, _)
LookupRows(table, file, i) ==
    IF i > Len(file) THEN [raised |-> "none", table |-> table]
    ELSE LET r == LookupRowStep(table, file[i])
         IN  IF r.raised # "none" THEN r ELSE LookupRows(r.table, file, i + 1)

\* the whole function on a file that can be read
LoadLookupTable(file) ==
    LET h == LookupHeader(file)
    IN  IF h.raised # "none" THEN [raised |-> h.raised, table |-> <<>>]
        ELSE LookupRows(<<>>, file, h.start)

----------------------------------------------------------------------------
(* load_protocal_map *)

ProtocolHeader(file) ==
    IF file = <<>> THEN [raised |-> "StopIteration", start |-> 0]
    ELSE [raised |-> "none", start |-> 2]

ProtocolRowStep(map, line) ==
    LET row == CsvRow(line)
    IN  IF Len(row) < ProtocolRowFields THEN map
        ELSE IF ~ParsesAsInt(Strip(row[1])) THEN map
        ELSE Put(map, ToInt(Strip(row[1])), Lower(Strip(row[2])))

----------------------------------------------------------------------------
(* parse_flow_log_line *)

ProtocolName(n, map) ==
    Lower(IF n \in DOMAIN map THEN map[n] ELSE IntToStr(n))

\* the field one place before the destination port
PortFieldOffByOne(fields) == fields[DstPortIndex]

PortField(fields) == fields[DstPortIndex + 1]

ProtocolField(fields) == fields[ProtocolIndex + 1]

ParseFlowLogLine(line, map) ==
    LET l == Strip(line)
        fields == Split(l)
    IN  IF l = <<>> \/ l[1] = "#" THEN None
        ELSE IF Len(fields) < MinFields THEN None
        ELSE IF ~ParsesAsInt(PortField(fields)) \/ ~ParsesAsInt(ProtocolField(fields))
             THEN None
        ELSE <<ToInt(PortField(fields)),
               ProtocolName(ToInt(ProtocolField(fields)), map)>>

----------------------------------------------------------------------------
(* process_flow_log *)

\* a lookup by port alone: any protocol's entry for the port supplies the tag
LookupTagAnyProtocol(table, protocol, port) ==
    IF \E q \in DOMAIN table : port \in DOMAIN table[q]
    THEN table[CHOOSE q \in DOMAIN table : port \in DOMAIN table[q]][port]
    ELSE Untagged

\* lookup_table.get(protocol_name, {}).get(dstport, 'Untagged')
LookupTag(table, protocol, port) ==
    IF protocol \in DOMAIN table /\ port \in DOMAIN table[protocol]
    THEN table[protocol][port]
    ELSE Untagged

\* a count of tagged records only
CountTagIfTagged(counts, tg) == IF tg = Untagged THEN counts ELSE Incr(counts, tg)

CountTag(counts, tg) == Incr(counts, tg)

CountPortProtocol(counts, key) == Incr(counts, key)

\* the body of the line loop on the pair of count maps
FlowStep(c, line, map, table) ==
    LET r == ParseFlowLogLine(line, map)
    IN  IF r = None THEN c
        ELSE [tags  |-> CountTag(c.tags, LookupTag(table, r[2], r[1])),
              ports |-> CountPortProtocol(c.ports, r)]

RECURSIVE FlowLines(_, _, _, _, _)
FlowLines(c, lines, i, map, table) ==
    IF i > Len(lines) THEN c
    ELSE FlowLines(FlowStep(c, lines[i], map, table), lines, i + 1, map, table)

\* the whole function on a file that can be read
ProcessFlowLog(lines, map, table) ==
    FlowLines([tags |-> <<>>, ports |-> <<>>], lines, 1, map, table)

----------------------------------------------------------------------------
(* write_output *)

TagHeading == <<"T", "a", "g", " ", "C", "o", "u", "n", "t", "s", ":">>

TagColumns == <<"T", "a", "g", ",", " ", "C", "o", "u", "n", "t">>

PortHeading ==
    <<"P", "o", "r", "t", "/", "P", "r", "o", "t", "o", "c", "o", "l", " ",
      "C", "o", "m", "b", "i", "n", "a", "t", "i", "o", "n", " ",
      "C", "o", "u", "n", "t", "s", ":">>

PortColumns ==
    <<"P", "o", "r", "t", ",", "P", "r", "o", "t", "o", "c", "o", "l", ",",
      "C", "o", "u", "n", "t">>

\* sorted(items, key=...), with less[i][j] telling whether the key of
\* items[i] is below that of items[j]: stable, so items with equal keys keep
\* their order
SortedBy(items, less) ==
    LET n == Len(items)
        rank(j) == 1 + Cardinality({k \in 1..n :
                         less[k][j] \/ (~less[j][k] /\ k < j)})
    IN  [i \in 1..n |-> items[CHOOSE j \in 1..n : rank(j) = i]]

\* lambda x: x[0]
TagSortKeyRaw(tg) == tg

\* lambda x: x[0].lower()
TagSortKey(tg) == Lower(tg)

TagLess(a, b) == StrLess(TagSortKey(a.key), TagSortKey(b.key))

\* no order at all: the items stay in insertion order
Unsorted(a, b) == FALSE

\* lambda x: (x[0][0], x[0][1])
PortProtocolLess(a, b) ==
    \/ a.key[1] < b.key[1]
    \/ (a.key[1] = b.key[1] /\ StrLess(a.key[2], b.key[2]))

TagLine(item) == item.key \o <<",">> \o IntToStr(item.count)

PortProtocolLine(item) ==
    IntToStr(item.key[1]) \o <<",">> \o item.key[2] \o <<",">>
    \o IntToStr(item.count)

TagSection(tags) ==
    LET s == SortedBy(tags, [i \in 1..Len(tags) |-> [j \in 1..Len(tags) |->
                                TagLess(tags[i], tags[j])]])
    IN  [i \in 1..Len(s) |-> TagLine(s[i])]

PortProtocolSection(ports) ==
    LET s == SortedBy(ports, [i \in 1..Len(ports) |-> [j \in 1..Len(ports) |->
                                PortProtocolLess(ports[i], ports[j])]])
    IN  [i \in 1..Len(s) |-> PortProtocolLine(s[i])]

\* every line write_output writes, in order
Report(tags, ports) ==
    <<TagHeading, TagColumns>> \o TagSection(tags)
    \o <<<<>>, PortHeading, PortColumns>> \o PortProtocolSection(ports)

\* open(output_file, 'a') on a file that holds `content`
OpenForAppending(content) == content

\* open(output_file, 'w') on a file that holds `content`
OpenForWriting(content) == <<>>

----------------------------------------------------------------------------
(* The files a run is given *)

MaxLookupRows == 2

MaxProtocolRows == 3

MaxLines == 3

RECURSIVE Join(_, _)
Join(fields, sep) ==
    IF fields = <<>> THEN <<>>
    ELSE IF Len(fields) = 1 THEN fields[1]
    ELSE fields[1] \o sep \o Join(Tail(fields), sep)

SeqsUpTo(S, n) == UNION {[1..k -> S] : k \in 0..n}

Csv(fields) == Join(fields, <<",">>)

\* lookup-table lines: a header in mixed case, two rows for the key
\* (tcp, 25) that differ in spacing and case, a row with a port that is no
\* integer, a row of two fields, a row of four fields, a blank line
LookupLines ==
    { Csv(<<<<"D", "s", "t", "P", "o", "r", "t">>,
            <<"p", "r", "o", "t", "o", "c", "o", "l">>, <<"t", "a", "g">>>>),
      Csv(<<<<"2", "5">>, <<"t", "c", "p">>, <<"W", "e", "b">>>>),
      Csv(<<<<" ", "2", "5", " ">>, <<" ", "T", "C", "P", " ">>,
            <<" ", "w", "e", "b", " ">>>>),
      Csv(<<<<"x">>, <<"t", "c", "p">>, <<"Z", "e", "d">>>>),
      Csv(<<<<"2", "5">>, <<"t", "c", "p">>>>),
      Csv(<<<<"2", "3">>, <<"u", "d", "p">>, <<"Z", "e", "d">>, <<"x">>>>),
      <<>> }

\* protocol-number lines: a header, two rows for the number 6 that differ in
\* spacing, case and field count, a row of one field
ProtocolLines ==
    { Csv(<<<<"D", "e", "c", "i", "m", "a", "l">>,
            <<"K", "e", "y", "w", "o", "r", "d">>>>),
      Csv(<<<<"6">>, <<"T", "C", "P">>>>),
      Csv(<<<<" ", "6", " ">>, <<" ", "S", "i", "x", " ">>, <<"x">>>>),
      Csv(<<<<"1", "7">>>>) }

\* a flow-log line of n fields with the given fields at indices 6 and 7
Filler == <<"1">>

FlowLine(lead, n, port, protocol, sep) ==
    lead \o Join([i \in 1..n |->
                    IF i = DstPortIndex + 1 THEN port
                    ELSE IF i = ProtocolIndex + 1 THEN protocol
                    ELSE Filler], sep)
    \o <<"\n">>

Record(port, protocol) == FlowLine(<<>>, MinFields, port, protocol, <<" ">>)

CommentLine == <<"#", " ", "c", "\n">>

\* a lookup table with a header, a key given twice, and two tags that differ
\* in case only and lie on either side of "Untagged" in code-point order;
\* the protocol numbers for it
LookupMain ==
    << Csv(<<<<"d", "s", "t", "p", "o", "r", "t">>,
             <<"p", "r", "o", "t", "o", "c", "o", "l">>, <<"t", "a", "g">>>>),
       Csv(<<<<" ", "2", "5">>, <<"T", "c", "p", " ">>, <<"O", "l", "d">>>>),
       Csv(<<<<"2", "5">>, <<"t", "c", "p">>, <<"M", "a", "i", "l">>>>),
       Csv(<<<<"2", "3">>, <<"t", "c", "p">>, <<"m", "a", "i", "l">>>>),
       Csv(<<<<"2", "5">>, <<"u", "d", "p">>, <<"Z", "e", "d">>>>) >>

ProtocolMain ==
    << Csv(<<<<"D", "e", "c", "i", "m", "a", "l">>,
             <<"K", "e", "y", "w", "o", "r", "d">>>>),
       Csv(<<<<"6">>, <<"T", "C", "P">>>>),
       Csv(<<<<"1", "7">>, <<"U", "D", "P">>>>) >>

\* records for (25, tcp), (23, tcp) and (23, udp), and a comment
FlowLogLines ==
    { Record(<<"2", "5">>, <<"6">>), Record(<<"2", "3">>, <<"6">>),
      Record(<<"2", "3">>, <<"1", "7">>), CommentLine }

\* single lines that vary what parse_flow_log_line looks at: the fields at
\* indices 6 and 7 of a line of MinFields fields, and the leading text, the
\* number of fields and the separator around fields that parse
ParserLines ==
    { FlowLine(<<>>, MinFields, port, protocol, <<" ">>) :
        port \in {<<"2", "5">>, <<"+", "0", "7">>, <<"-", "1">>, <<"2", "x">>,
                  <<"1", "_", "0">>},
        protocol \in {<<"6">>, <<"0", "6">>, <<"1", "7">>, <<"y">>} }
    \cup
    { FlowLine(lead, n, <<"2", "5">>, <<"6">>, sep) :
        lead \in {<<>>, <<" ", "\t">>, <<"#">>},
        n \in {MinFields - 1, MinFields, MinFields + 1},
        sep \in {<<" ">>, <<"\t", " ">>} }
    \cup {<<>>, <<"\n">>, <<" ", "\n">>}

OldOutput == <<<<"o", "l", "d">>>>

Files ==
    {[lookup |-> l, protocol |-> ProtocolMain,
      flow |-> <<Record(<<"2", "5">>, <<"6">>)>>] :
        l \in SeqsUpTo(LookupLines, MaxLookupRows)}
    \cup
    {[lookup |-> LookupMain, protocol |-> p,
      flow |-> <<Record(<<"2", "5">>, <<"6">>)>>] :
        p \in SeqsUpTo(ProtocolLines, MaxProtocolRows)}
    \cup
    {[lookup |-> LookupMain, protocol |-> ProtocolMain, flow |-> f] :
        f \in SeqsUpTo(FlowLogLines, MaxLines)}
    \cup
    {[lookup |-> LookupMain, protocol |-> p, flow |-> <<l>>] :
        p \in {ProtocolMain, SubSeq(ProtocolMain, 1, 1)},
        l \in ParserLines}

----------------------------------------------------------------------------
(* main *)

Init ==
    /\ argc \in {ArgCount - 1, ArgCount}
    /\ \E f \in Files :
        /\ lookup_file = f.lookup
        /\ protocol_file = f.protocol
        /\ flow_log_file = f.flow
    /\ output_file = OldOutput
    /\ pc = "main"
    /\ exit_status = Running
    /\ error = "none"
    /\ stages = <<>>
    /\ lookup_table = <<>>
    /\ protocol_map = <<>>
    /\ row_idx = 0
    /\ line_idx = 0
    /\ result = None
    /\ tag = <<>>
    /\ tag_counts = <<>>
    /\ port_protocol_counts = <<>>
    /\ out_open = FALSE

inputs == <<argc, lookup_file, protocol_file, flow_log_file>>

loaded == <<lookup_table, protocol_map>>

counted == <<line_idx, result, tag, tag_counts, port_protocol_counts>>

\* print the message and sys.exit(1)
Exit1(e) ==
    /\ pc' = "exited"
    /\ exit_status' = 1
    /\ error' = e

\* main with the two loaders called in the other order
NextStageSwapped(stage) ==
    CASE stage = "main" -> "protocol"
      [] stage = "protocol" -> "lookup"
      [] stage = "lookup" -> "scan"
      [] stage = "scan" -> "write"

\* the stage main calls after `stage` has returned
NextStage(stage) ==
    CASE stage = "main" -> "lookup"
      [] stage = "lookup" -> "protocol"
      [] stage = "protocol" -> "scan"
      [] stage = "scan" -> "write"

Call(from) ==
    /\ pc' = NextStage(from)
    /\ stages' = Append(stages, NextStage(from))
    /\ UNCHANGED <<exit_status, error>>


UsageError ==
    /\ pc = "main"
    /\ argc # ArgCount
    /\ Exit1("usage")
    /\ UNCHANGED <<inputs, output_file, stages, loaded, row_idx, counted, out_open>>

CallLoadLookupTable ==
    /\ pc = "main"
    /\ argc = ArgCount
    /\ Call("main")
    /\ UNCHANGED <<inputs, output_file, loaded, row_idx, counted, out_open>>

\* load_lookup_table: open the file, read the first row, decide on the header
LookupOpen ==
    /\ pc = "lookup"
    /\ row_idx = 0
    /\ LET h == LookupHeader(lookup_file)
       IN  IF h.raised # "none"
           THEN Exit1(h.raised) /\ UNCHANGED <<row_idx, stages>>
           ELSE /\ row_idx' = h.start
                /\ UNCHANGED <<pc, exit_status, error, stages>>
    /\ UNCHANGED <<inputs, output_file, loaded, counted, out_open>>

\* load_lookup_table: one pass of the row loop
LookupRow ==
    /\ pc = "lookup"
    /\ row_idx > 0
    /\ row_idx <= Len(lookup_file)
    /\ LET r == LookupRowStep(lookup_table, lookup_file[row_idx])
       IN  IF r.raised # "none"
           THEN Exit1(r.raised) /\ UNCHANGED <<row_idx, lookup_table>>
           ELSE /\ lookup_table' = r.table
                /\ row_idx' = row_idx + 1
                /\ UNCHANGED <<pc, exit_status, error>>
    /\ UNCHANGED <<inputs, output_file, stages, protocol_map, counted, out_open>>

\* load_lookup_table returns; main calls load_protocal_map
LookupReturn ==
    /\ pc = "lookup"
    /\ row_idx > Len(lookup_file)
    /\ Call("lookup")
    /\ row_idx' = 0
    /\ UNCHANGED <<inputs, output_file, loaded, counted, out_open>>

\* open() or a read of the lookup table raises
LookupIOError ==
    /\ pc = "lookup"
    /\ Exit1("OSError")
    /\ UNCHANGED <<inputs, output_file, stages, loaded, row_idx, counted, out_open>>

\* load_protocal_map: open the file and drop the first row
ProtocolOpen ==
    /\ pc = "protocol"
    /\ row_idx = 0
    /\ LET h == ProtocolHeader(protocol_file)
       IN  IF h.raised # "none"
           THEN Exit1(h.raised) /\ UNCHANGED <<row_idx, stages>>
           ELSE /\ row_idx' = h.start
                /\ UNCHANGED <<pc, exit_status, error, stages>>
    /\ UNCHANGED <<inputs, output_file, loaded, counted, out_open>>

\* load_protocal_map: one pass of the row loop
ProtocolRow ==
    /\ pc = "protocol"
    /\ row_idx > 0
    /\ row_idx <= Len(protocol_file)
    /\ protocol_map' = ProtocolRowStep(protocol_map, protocol_file[row_idx])
    /\ row_idx' = row_idx + 1
    /\ UNCHANGED <<inputs, output_file, pc, exit_status, error, stages,
                   lookup_table, counted, out_open>>

\* load_protocal_map returns; main calls process_flow_log
ProtocolReturn ==
    /\ pc = "protocol"
    /\ row_idx > Len(protocol_file)
    /\ Call("protocol")
    /\ UNCHANGED <<inputs, output_file, loaded, row_idx, counted, out_open>>

ProtocolIOError ==
    /\ pc = "protocol"
    /\ Exit1("OSError")
    /\ UNCHANGED <<inputs, output_file, stages, loaded, row_idx, counted, out_open>>

\* process_flow_log: one pass of the line loop
FlowLogLine ==
    /\ pc = "scan"
    /\ line_idx < Len(flow_log_file)
    /\ LET line == flow_log_file[line_idx + 1]
           r == ParseFlowLogLine(line, protocol_map)
           c == FlowStep([tags |-> tag_counts, ports |-> port_protocol_counts],
                         line, protocol_map, lookup_table)
       IN  /\ result' = r
           /\ tag' = IF r = None THEN tag ELSE LookupTag(lookup_table, r[2], r[1])
           /\ tag_counts' = c.tags
           /\ port_protocol_counts' = c.ports
    /\ line_idx' = line_idx + 1
    /\ UNCHANGED <<inputs, output_file, pc, exit_status, error, stages, loaded,
                   row_idx, out_open>>

\* process_flow_log returns; main calls write_output
FlowLogReturn ==
    /\ pc = "scan"
    /\ line_idx = Len(flow_log_file)
    /\ Call("scan")
    /\ UNCHANGED <<inputs, output_file, loaded, row_idx, counted, out_open>>

FlowLogIOError ==
    /\ pc = "scan"
    /\ Exit1("OSError")
    /\ UNCHANGED <<inputs, output_file, stages, loaded, row_idx, counted, out_open>>

\* write_output: open(output_file, 'w')
WriteOpen ==
    /\ pc = "write"
    /\ ~out_open
    /\ out_open' = TRUE
    /\ output_file' = OpenForWriting(output_file)
    /\ row_idx' = 0
    /\ UNCHANGED <<inputs, pc, exit_status, error, stages, loaded, counted>>

\* write_output: the next line of the report reaches the file
WriteLine ==
    /\ pc = "write"
    /\ out_open
    /\ LET report == Report(tag_counts, port_protocol_counts)
       IN  /\ row_idx < Len(report)
           /\ output_file' = Append(output_file, report[row_idx + 1])
    /\ row_idx' = row_idx + 1
    /\ UNCHANGED <<inputs, pc, exit_status, error, stages, loaded, counted, out_open>>

\* write_output returns, main returns: the process ends with status 0
WriteReturn ==
    /\ pc = "write"
    /\ out_open
    /\ row_idx = Len(Report(tag_counts, port_protocol_counts))
    /\ pc' = "exited"
    /\ exit_status' = 0
    /\ UNCHANGED <<inputs, output_file, error, stages, loaded, row_idx, counted,
                   out_open>>

\* open() for writing, a write or the close raises
WriteIOError ==
    /\ pc = "write"
    /\ Exit1("OSError")
    /\ UNCHANGED <<inputs, output_file, stages, loaded, row_idx, counted, out_open>>

Next ==
    \/ UsageError
    \/ CallLoadLookupTable
    \/ LookupOpen
    \/ LookupRow
    \/ LookupReturn
    \/ LookupIOError
    \/ ProtocolOpen
    \/ ProtocolRow
    \/ ProtocolReturn
    \/ ProtocolIOError
    \/ FlowLogLine
    \/ FlowLogReturn
    \/ FlowLogIOError
    \/ WriteOpen
    \/ WriteLine
    \/ WriteReturn
    \/ WriteIOError

Spec == Init /\ [][Next]_vars

----------------------------------------------------------------------------
(* What the claims speak of *)

Keys(d) == {d[i].key : i \in 1..Len(d)}

Items(d) == {d[i] : i \in 1..Len(d)}

Value(d, k) ==
    IF k \in Keys(d) THEN d[CHOOSE i \in 1..Len(d) : d[i].key = k].count ELSE 0

RECURSIVE Total(_)
Total(d) == IF d = <<>> THEN 0 ELSE d[1].count + Total(Tail(d))

IsPrefix(a, b) == Len(a) <= Len(b) /\ a = SubSeq(b, 1, Len(a))

Permutations(seq) ==
    {[i \in 1..Len(seq) |-> seq[f[i]]] :
        f \in {g \in [1..Len(seq) -> 1..Len(seq)] :
                 \A i, j \in 1..Len(seq) : g[i] = g[j] => i = j}}

AllStages == <<"lookup", "protocol", "scan", "write">>

Returned(stage) ==
    \E i \in 1..Len(stages) :
        /\ stages[i] = stage
        /\ (i < Len(stages) \/ exit_status = 0)

\* the stage has ended on its own: it returned or an exception of its code
\* ended the run, not a failure of the file system
EndedInCode(stage) ==
    \/ Returned(stage)
    \/ /\ pc = "exited"
       /\ stages # <<>>
       /\ stages[Len(stages)] = stage
       /\ error # "OSError"

\* load_lookup_table, or load_protocal_map, has returned this very step; the
\* table and the map are not written again
LookupJustReturned == pc = "protocol" /\ row_idx = 0

ProtocolJustReturned == pc = "scan" /\ line_idx = 0

\* exactly one entry of the map is raised, by one, and no other changes
OneRaised(d, e) ==
    \E k \in Keys(e) :
        /\ Value(e, k) = Value(d, k) + 1
        /\ \A x \in (Keys(d) \cup Keys(e)) \ {k} : Value(e, x) = Value(d, x)

----------------------------------------------------------------------------
(* C1 *)

ValidLines ==
    {j \in 1..line_idx : ParseFlowLogLine(flow_log_file[j], protocol_map) # None}

C1_Sums ==
    /\ Total(tag_counts) = Cardinality(ValidLines)
    /\ Total(port_protocol_counts) = Cardinality(ValidLines)

C1_Step ==
    line_idx' = line_idx + 1 =>
        IF ParseFlowLogLine(flow_log_file[line_idx'], protocol_map) = None
        THEN tag_counts' = tag_counts /\ port_protocol_counts' = port_protocol_counts
        ELSE /\ OneRaised(tag_counts, tag_counts')
             /\ OneRaised(port_protocol_counts, port_protocol_counts')

\* C1: after any prefix of the flow log, the values of tag_counts and those of
\* port_protocol_counts both sum to the number of lines of the prefix that
\* parse to a record; a line that parses raises exactly one entry of each
\* map by exactly 1, a line that does not leaves both maps as they are.
C1_CountsAgree == [](C1_Sums) /\ [][C1_Step]_vars

\* a whole log of parsed and skipped lines has been counted
C1_Witness ==
    /\ pc = "write"
    /\ Cardinality(ValidLines) >= 2
    /\ Cardinality(ValidLines) < line_idx
    /\ Len(tag_counts) >= 2

----------------------------------------------------------------------------
(* C2 *)

ValidLookupRow(i) ==
    /\ Len(CsvRow(lookup_file[i])) >= LookupRowFields
    /\ ParsesAsInt(CsvRow(lookup_file[i])[1])

LookupKey(i) ==
    <<Lower(Strip(CsvRow(lookup_file[i])[2])), ToInt(CsvRow(lookup_file[i])[1])>>

InTable(key) ==
    key[1] \in DOMAIN lookup_table /\ key[2] \in DOMAIN lookup_table[key[1]]

\* C2: load_lookup_table ends the process only when the file cannot be
\* opened or read; on a readable file no row, whatever its fields, ends the
\* process, and every row of at least three fields with an integer port is
\* in the returned table.
C2_OnlyIOErrorsAreFatal ==
    /\ (pc = "exited" /\ stages = <<"lookup">>) => error = "OSError"
    /\ Returned("lookup") =>
         \A i \in 1..Len(lookup_file) : ValidLookupRow(i) => InTable(LookupKey(i))

----------------------------------------------------------------------------
(* C3 *)

C3_Tag ==
    result # None =>
        tag = IF /\ result[2] \in DOMAIN lookup_table
                 /\ result[1] \in DOMAIN lookup_table[result[2]]
              THEN lookup_table[result[2]][result[1]]
              ELSE Untagged

C3_Step ==
    (line_idx' = line_idx + 1 /\ result' # None) =>
        /\ Value(tag_counts', tag') = Value(tag_counts, tag') + 1
        /\ \A x \in Keys(tag_counts) \ {tag'} : Value(tag_counts', x) = Value(tag_counts, x)

\* C3: for a record (dstport, protocol) the tag counted is
\* lookup_table[protocol][dstport] when the table has the protocol and,
\* under it, the port, and "Untagged" otherwise; an entry for the port under
\* another protocol never supplies the tag.
C3_TagIsPerProtocol == [](C3_Tag) /\ [][C3_Step]_vars

\* a record whose port the table has under another protocol only
C3_Witness ==
    /\ result # None
    /\ tag = Untagged
    /\ result[2] \in DOMAIN lookup_table
    /\ result[1] \notin DOMAIN lookup_table[result[2]]
    /\ \E q \in DOMAIN lookup_table : result[1] \in DOMAIN lookup_table[q]
    /\ Value(tag_counts, Untagged) >= 1

----------------------------------------------------------------------------
(* C4 *)

LastLine == flow_log_file[line_idx]

Skipped(line) ==
    \/ Strip(line) = <<>>
    \/ Strip(line)[1] = "#"
    \/ Len(Split(Strip(line))) < MinFields
    \/ ~ParsesAsInt(Split(Strip(line))[DstPortIndex + 1])
    \/ ~ParsesAsInt(Split(Strip(line))[ProtocolIndex + 1])

\* C4: parse_flow_log_line returns no record exactly when the trimmed line is
\* empty, starts with '#', has fewer than 14 whitespace-separated fields, or
\* has a field 6 or 7 that is no integer; otherwise it returns the integer of
\* field 6 and the lowercased protocol-map entry of the integer of field 7,
\* or that integer's decimal string when the map has no entry.
C4_ParseResult ==
    (pc = "scan" /\ line_idx > 0) =>
        /\ result = None <=> Skipped(LastLine)
        /\ ~Skipped(LastLine) =>
             LET fields == Split(Strip(LastLine))
                 number == ToInt(fields[ProtocolIndex + 1])
             IN  /\ result[1] = ToInt(fields[DstPortIndex + 1])
                 /\ result[2] = IF number \in DOMAIN protocol_map
                                THEN Lower(protocol_map[number])
                                ELSE IntToStr(number)

\* a protocol field "06" with no map entry gives the name "6"
C4_Witness ==
    /\ pc = "scan"
    /\ line_idx > 0
    /\ ~Skipped(LastLine)
    /\ Split(Strip(LastLine))[ProtocolIndex + 1] = <<"0", "6">>
    /\ result[2] = <<"6">>

----------------------------------------------------------------------------
(* C5 *)

C5_State ==
    /\ IsPrefix(stages, AllStages)
    /\ error # "none" => exit_status = 1
    /\ exit_status = 0 =>
         /\ stages = AllStages
         /\ output_file = Report(tag_counts, port_protocol_counts)

C5_Step ==
    /\ exit_status # Running => stages' = stages /\ exit_status' = exit_status
    /\ (error = "none" /\ error' # "none") => stages' = stages /\ exit_status' = 1

\* C5: the stages start in the order load lookup table, load protocol map,
\* scan flow log, write report, each at most once; after a fatal failure no
\* stage starts and the exit status is 1; the exit status is 0 only once the
\* write stage has written the whole report.
C5_Pipeline == [](C5_State) /\ [][C5_Step]_vars

\* the scan failed: three stages were started, the fourth never
C5_Witness ==
    /\ exit_status = 1
    /\ stages = <<"lookup", "protocol", "scan">>
    /\ output_file = OldOutput

----------------------------------------------------------------------------
(* C6 *)

\* C6 as claimed: after any fatal error the output file holds the complete
\* report or is as it was before the run.
C6_NoPartialOutput ==
    exit_status = 1 =>
        \/ output_file = OldOutput
        \/ output_file = Report(tag_counts, port_protocol_counts)

\* C6 amended: after a fatal error that comes before write_output has opened
\* the output file, the file is as it was before the run; after one that
\* comes later, the file holds a prefix of the report, which may be empty or
\* partial.
C6_PartialOutputIsAPrefix ==
    exit_status = 1 =>
        IF out_open
        THEN IsPrefix(output_file, Report(tag_counts, port_protocol_counts))
        ELSE output_file = OldOutput

\* a write failed with some of the report in the file
C6_Witness ==
    /\ exit_status = 1
    /\ out_open
    /\ Len(output_file) > 2
    /\ Len(output_file) < Len(Report(tag_counts, port_protocol_counts))

----------------------------------------------------------------------------
(* C7 *)

LastComma(line) == MaxOf({i \in 1..Len(line) : line[i] = ","})

\* the lines of the two sections of a complete report, read back from the file
TagLinesOf(file) == SubSeq(file, 3, 2 + Len(tag_counts))

PortLinesOf(file) == SubSeq(file, 6 + Len(tag_counts), Len(file))

TagOf(line) == SubSeq(line, 1, LastComma(line) - 1)

CountOf(line) == SubSeq(line, LastComma(line) + 1, Len(line))

PortProtocolOf(line) == <<ToInt(SplitOnComma(line)[1]), SplitOnComma(line)[2]>>

C7_TagSection ==
    LET lines == TagLinesOf(output_file)
    IN  /\ Len(lines) = Cardinality(Keys(tag_counts))
        /\ {TagOf(lines[i]) : i \in 1..Len(lines)} = Keys(tag_counts)
        /\ \A i \in 1..Len(lines) :
             CountOf(lines[i]) = IntToStr(Value(tag_counts, TagOf(lines[i])))
        /\ \A i \in 1..(Len(lines) - 1) :
             ~StrLess(Lower(TagOf(lines[i + 1])), Lower(TagOf(lines[i])))

C7_PortSection ==
    LET lines == PortLinesOf(output_file)
    IN  /\ Len(lines) = Cardinality(Keys(port_protocol_counts))
        /\ {PortProtocolOf(lines[i]) : i \in 1..Len(lines)} = Keys(port_protocol_counts)
        /\ \A i \in 1..Len(lines) :
             /\ Len(SplitOnComma(lines[i])) = 3
             /\ SplitOnComma(lines[i])[3]
                  = IntToStr(Value(port_protocol_counts, PortProtocolOf(lines[i])))
        /\ \A i \in 1..(Len(lines) - 1) :
             LET a == PortProtocolOf(lines[i])
                 b == PortProtocolOf(lines[i + 1])
             IN  a[1] < b[1] \/ (a[1] = b[1] /\ StrLess(a[2], b[2]))

\* C7: the finished report has, after the heading "Tag Counts:" and its
\* column line, one line "<tag>,<count>" per key of tag_counts, in ascending
\* order of the lowercased tag; then a blank line, the heading
\* "Port/Protocol Combination Counts:" and its column line, and one line
\* "<port>,<protocol>,<count>" per key of port_protocol_counts, in ascending
\* order of (port as integer, protocol as string); each line carries the
\* count of its key.
C7_ReportIsSorted ==
    exit_status = 0 =>
        /\ Len(output_file) = 5 + Len(tag_counts) + Len(port_protocol_counts)
        /\ output_file[1] = TagHeading
        /\ output_file[2] = TagColumns
        /\ output_file[3 + Len(tag_counts)] = <<>>
        /\ output_file[4 + Len(tag_counts)] = PortHeading
        /\ output_file[5 + Len(tag_counts)] = PortColumns
        /\ C7_TagSection
        /\ C7_PortSection

\* a report with tags whose order depends on case, a count above 1 and
\* several port/protocol pairs
C7_Witness ==
    /\ exit_status = 0
    /\ {<<"m", "a", "i", "l">>, Untagged} \subseteq Keys(tag_counts)
    /\ Len(port_protocol_counts) >= 2
    /\ \E i \in 1..Len(tag_counts) : tag_counts[i].count >= 2

----------------------------------------------------------------------------
(* C8 *)

ValidProtocolRow(i) ==
    /\ Len(CsvRow(protocol_file[i])) >= ProtocolRowFields
    /\ ParsesAsInt(CsvRow(protocol_file[i])[1])

ProtocolNumber(i) == ToInt(CsvRow(protocol_file[i])[1])

SameLookupKey(i) ==
    {j \in 1..Len(lookup_file) : ValidLookupRow(j) /\ LookupKey(j) = LookupKey(i)}

SameProtocolNumber(i) ==
    {j \in 1..Len(protocol_file) :
        ValidProtocolRow(j) /\ ProtocolNumber(j) = ProtocolNumber(i)}

C8_Lookup ==
    \A i \in 1..Len(lookup_file) :
        (ValidLookupRow(i) /\ Cardinality(SameLookupKey(i)) >= 2) =>
            /\ InTable(LookupKey(i))
            /\ lookup_table[LookupKey(i)[1]][LookupKey(i)[2]]
                 = Strip(CsvRow(lookup_file[MaxOf(SameLookupKey(i))])[3])

C8_Protocol ==
    \A i \in 1..Len(protocol_file) :
        (ValidProtocolRow(i) /\ Cardinality(SameProtocolNumber(i)) >= 2) =>
            /\ ProtocolNumber(i) \in DOMAIN protocol_map
            /\ protocol_map[ProtocolNumber(i)]
                 = Lower(Strip(CsvRow(protocol_file[MaxOf(SameProtocolNumber(i))])[2]))

\* C8: in the table load_lookup_table returns, a key (trimmed lowercased
\* protocol, integer port) that several valid rows give maps to the trimmed
\* tag, in its own case, of the last of them; in the map load_protocal_map
\* returns, a number that several valid rows give maps to the trimmed
\* lowercased keyword of the last of them.
C8_LastRowWins ==
    /\ LookupJustReturned => C8_Lookup
    /\ ProtocolJustReturned => C8_Protocol

\* both loaders have returned from files that give a key twice, with
\* different values
C8_Witness ==
    /\ ProtocolJustReturned
    /\ \E i, j \in 1..Len(lookup_file) :
         /\ i < j
         /\ ValidLookupRow(i)
         /\ j \in SameLookupKey(i)
         /\ Strip(CsvRow(lookup_file[i])[3]) # Strip(CsvRow(lookup_file[j])[3])
    /\ \E i, j \in 1..Len(protocol_file) :
         /\ i < j
         /\ ValidProtocolRow(i)
         /\ j \in SameProtocolNumber(i)
         /\ Lower(Strip(CsvRow(protocol_file[i])[2]))
              # Lower(Strip(CsvRow(protocol_file[j])[2]))

----------------------------------------------------------------------------
(* C9 *)

HeaderLine == Csv(<<HeaderKeyword, <<"p", "r", "o", "t", "o", "c", "o", "l">>, <<"t", "a", "g">>>>)

HasHeader(file) ==
    /\ file # <<>>
    /\ CsvRow(file[1]) # <<>>
    /\ Lower(CsvRow(file[1])[1]) = HeaderKeyword

C9_Lookup ==
    (EndedInCode("lookup") /\ ~HasHeader(lookup_file)) =>
        LET with == LoadLookupTable(<<HeaderLine>> \o lookup_file)
        IN  IF Returned("lookup")
            THEN with.raised = "none" /\ with.table = lookup_table
            ELSE with.raised # "none"

C9_Protocol ==
    Returned("protocol") =>
        \A n \in DOMAIN protocol_map :
            \E i \in 2..Len(protocol_file) :
                ValidProtocolRow(i) /\ ProtocolNumber(i) = n

\* C9: load_lookup_table drops the first row exactly when its first field is
\* "dstport" in any case and otherwise treats it as a data row like any
\* other, so a file without a header gives what the same file gives with a
\* header row put in front; load_protocal_map drops the first row whatever
\* it holds, so only rows after the first give entries.
C9_HeaderHandling == C9_Lookup /\ C9_Protocol

----------------------------------------------------------------------------
(* C10 *)

CaseCollision(d) ==
    \E a, b \in Keys(d) : a # b /\ Lower(a) = Lower(b)

SameCounts(c) ==
    /\ Items(c.tags) = Items(tag_counts)
    /\ Items(c.ports) = Items(port_protocol_counts)

\* C10 as claimed: every permutation of the log gives the same counts and the
\* same report text, whatever the tags.
C10_ReportIgnoresOrder ==
    exit_status = 0 =>
        \A p \in Permutations(flow_log_file) :
            LET c == ProcessFlowLog(p, protocol_map, lookup_table)
            IN  /\ SameCounts(c)
                /\ Report(c.tags, c.ports) = output_file

\* C10 amended: every permutation of the log gives the same counts, the same
\* Port/Protocol section and the same set of Tag Counts lines; the whole
\* report text is the same when no two tags counted differ in letter case
\* only.  (Tags that differ in case only are written in the order in which
\* the log first shows them.)
C10_CountsIgnoreOrder ==
    exit_status = 0 =>
        \A p \in Permutations(flow_log_file) :
            LET c == ProcessFlowLog(p, protocol_map, lookup_table)
                r == Report(c.tags, c.ports)
            IN  /\ SameCounts(c)
                /\ Len(r) = Len(output_file)
                /\ PortLinesOf(r) = PortLinesOf(output_file)
                /\ {r[i] : i \in 1..Len(r)} = {output_file[i] : i \in 1..Len(r)}
                /\ ~CaseCollision(tag_counts) => r = output_file

\* a report of a log whose lines can be put in another order, with several
\* tags and several port/protocol pairs counted
C10_Witness ==
    /\ exit_status = 0
    /\ Len(flow_log_file) >= 3
    /\ Len(tag_counts) >= 2
    /\ Len(port_protocol_counts) >= 2
    /\ ~CaseCollision(tag_counts)

====
